---- MODULE Spec2Model ----
(***************************************************************************)
(* Model of near-sdk/src/types/gas.rs: the Gas value type (a u64 newtype), *)
(* its constructors, operator impls, serde text encoding, Borsh binary     *)
(* encoding and the FromStr parser.                                        *)
(*                                                                         *)
(* TLC integers are 32 bits wide, so a u64 is held as four 16-bit limbs,   *)
(* least significant first.  All u64 arithmetic is done limb by limb and   *)
(* keeps the 64-bit width: every operation reports the wrapped low 64 bits *)
(* together with its carry / borrow / overflow flag.                       *)
(***************************************************************************)
EXTENDS Integers, Sequences, FiniteSets, TLC

\* ------------------------------------------------------------------------
\* Bounds of the model
\* ------------------------------------------------------------------------
\* longest enumerated input string (longer, named strings are added below)
MaxLen == 3
\* the small magnitudes 0..MaxSmall are among the sampled u64 values
MaxSmall == 3

\* ------------------------------------------------------------------------
\* u64 as four 16-bit limbs
\* ------------------------------------------------------------------------
LimbBase == 65536
NumLimbs == 4
ByteBase == 256

IsU64(a) == /\ a \in Seq(0..(LimbBase - 1))
            /\ Len(a) = NumLimbs

\* the u64 holding n, for 0 <= n < 2^31
FromNat(n) == <<n % LimbBase, n \div LimbBase, 0, 0>>

Zero == <<0, 0, 0, 0>>
U64_MAX == <<65535, 65535, 65535, 65535>>

\* comparison, most significant limb first
RECURSIVE LtFrom(_, _, _)
LtFrom(a, b, i) ==
    IF i = 0 THEN FALSE
    ELSE IF a[i] # b[i] THEN a[i] < b[i]
    ELSE LtFrom(a, b, i - 1)

Lt(a, b) == LtFrom(a, b, NumLimbs)
Le(a, b) == ~Lt(b, a)

\* a + b + cin: the low 64 bits and the carry out of bit 63
AddCarry(a, b, cin) ==
    LET t1 == a[1] + b[1] + cin
        t2 == a[2] + b[2] + (t1 \div LimbBase)
        t3 == a[3] + b[3] + (t2 \div LimbBase)
        t4 == a[4] + b[4] + (t3 \div LimbBase)
    IN [val |-> <<t1 % LimbBase, t2 % LimbBase, t3 % LimbBase, t4 % LimbBase>>,
        carry |-> t4 \div LimbBase]

AddWide(a, b) == AddCarry(a, b, 0)

\* 1 when limb x minus limb y minus the borrow goes below zero
Borrow(t) == IF t < 0 THEN 1 ELSE 0

\* a - b: the low 64 bits and the borrow out of bit 63
SubWide(a, b) ==
    LET t1 == a[1] - b[1]
        t2 == a[2] - b[2] - Borrow(t1)
        t3 == a[3] - b[3] - Borrow(t2)
        t4 == a[4] - b[4] - Borrow(t3)
    IN [val |-> <<(t1 + LimbBase) % LimbBase, (t2 + LimbBase) % LimbBase,
                  (t3 + LimbBase) % LimbBase, (t4 + LimbBase) % LimbBase>>,
        borrow |-> Borrow(t4)]

\* the 32-bit product of two limbs as <<low limb, high limb>>, computed
\* without leaving the 32-bit range
MulLimb(x, y) ==
    LET p1 == x * (y % ByteBase)
        p2 == x * (y \div ByteBase)
        t  == p1 + (p2 % ByteBase) * ByteBase
    IN <<t % LimbBase, (p2 \div ByteBase) + (t \div LimbBase)>>

\* a * b by columns: the low 64 bits and whether the product left the 64 bits
MulWide(a, b) ==
    LET lo(i, j) == MulLimb(a[i], b[j])[1]
        hi(i, j) == MulLimb(a[i], b[j])[2]
        c1 == lo(1, 1)
        c2 == lo(1, 2) + lo(2, 1) + hi(1, 1) + (c1 \div LimbBase)
        c3 == lo(1, 3) + lo(2, 2) + lo(3, 1) + hi(1, 2) + hi(2, 1)
              + (c2 \div LimbBase)
        c4 == lo(1, 4) + lo(2, 3) + lo(3, 2) + lo(4, 1)
              + hi(1, 3) + hi(2, 2) + hi(3, 1) + (c3 \div LimbBase)
        \* what reaches bit 64 from the columns kept
        c5 == hi(1, 4) + hi(2, 3) + hi(3, 2) + hi(4, 1) + (c4 \div LimbBase)
        \* the partial products that lie wholly above bit 63
        above == \E i, j \in 1..NumLimbs : i + j > NumLimbs + 1 /\ a[i] # 0 /\ b[j] # 0
    IN [val |-> <<c1 % LimbBase, c2 % LimbBase, c3 % LimbBase, c4 % LimbBase>>,
        over |-> c5 # 0 \/ above]

\* bit i (0 = least significant) of a
Bit(a, i) == (a[(i \div 16) + 1] \div (2 ^ (i % 16))) % 2

\* 2a + bit: the low 64 bits and the carry
Shl1(a, bit) == AddCarry(a, a, bit)

\* one step of binary long division: bring bit i of a into the remainder
DivRemStep(a, n, i, acc) ==
    LET r2 == Shl1(acc.rem, Bit(a, i))
        fits == r2.carry = 1 \/ Le(n, r2.val)
    IN [quot |-> Shl1(acc.quot, IF fits THEN 1 ELSE 0).val,
        rem  |-> IF fits THEN SubWide(r2.val, n).val ELSE r2.val]

\* the steps for the 16 bits of limb k (1 = least significant), top bit first
RECURSIVE DivRemLimb(_, _, _, _, _)
DivRemLimb(a, n, k, j, acc) ==
    IF j < 0 THEN acc
    ELSE LET next == DivRemStep(a, n, 16 * (k - 1) + j, acc)
         \* the running remainder stays below the divisor; testing it here
         \* also makes TLC compute each step before it starts the next one
         IN IF Lt(next.rem, n) THEN DivRemLimb(a, n, k, j - 1, next) ELSE acc

\* a / n and a % n for n # 0, by binary long division from bit 63 down
DivRem(a, n) ==
    LET s4 == DivRemLimb(a, n, 4, 15, [quot |-> Zero, rem |-> Zero])
        s3 == DivRemLimb(a, n, 3, 15, s4)
        s2 == DivRemLimb(a, n, 2, 15, s3)
    IN DivRemLimb(a, n, 1, 15, s2)

\* a / d and a % d for a small divisor 0 < d < 2^15, limb by limb from the top
RECURSIVE DivSmallFrom(_, _, _, _)
DivSmallFrom(a, d, i, r) ==
    IF i = 0 THEN [quot |-> <<>>, rem |-> r]
    ELSE LET cur == r * LimbBase + a[i]
             rest == DivSmallFrom(a, d, i - 1, cur % d)
         IN [quot |-> rest.quot \o <<cur \div d>>, rem |-> rest.rem]

DivSmall(a, d) == DivSmallFrom(a, d, NumLimbs, 0)

\* ------------------------------------------------------------------------
\* Results
\* ------------------------------------------------------------------------
Ok(v)      == [kind |-> "Ok", val |-> v]
Err(e)     == [kind |-> "Err", err |-> e]
\* a Rust panic: the call returns nothing to its caller
Panic(msg) == [kind |-> "Panic", msg |-> msg]
\* crate::env::abort()
Abort      == [kind |-> "Abort"]

\* ------------------------------------------------------------------------
\* Text: a string is a sequence of one-character strings
\* ------------------------------------------------------------------------
DigitChars == <<"0", "1", "2", "3", "4", "5", "6", "7", "8", "9">>

\* isNum widened to take a sign: the match arm '0'..='9' | '+'
isNumPlus(c) == c \in {"0", "1", "2", "3", "4", "5", "6", "7", "8", "9", "+"}

\* fn isNum(c: char) -> bool
isNum(c) == c \in {"0", "1", "2", "3", "4", "5", "6", "7", "8", "9"}

\* char::to_digit(10): the digit's value, or -1 for None
ToDigit(c) == IF \E d \in 0..9 : DigitChars[d + 1] = c
              THEN CHOOSE d \in 0..9 : DigitChars[d + 1] = c
              ELSE -1

\* value.starts_with(isNum)
StartsWithNum(value) == Len(value) > 0 /\ isNum(value[1])

\* str::replace(value, "_", "to")
RECURSIVE Replace(_)
Replace(value) ==
    IF value = <<>> THEN <<>>
    ELSE (IF Head(value) = "_" THEN <<"t", "o">> ELSE <<Head(value)>>)
         \o Replace(Tail(value))

\* the digit loop of u64::from_str_radix(_, 10): checked_mul(10), then
\* checked_add(digit), left to right
RECURSIVE ParseDigits(_, _, _)
ParseDigits(digits, i, acc) ==
    IF i > Len(digits) THEN Ok(acc)
    ELSE IF ToDigit(digits[i]) < 0 THEN Err("InvalidDigit")
    ELSE LET m == MulWide(acc, FromNat(10))
             t == AddWide(m.val, FromNat(ToDigit(digits[i])))
         IN IF m.over \/ t.carry # 0 THEN Err("PosOverflow")
            ELSE ParseDigits(digits, i + 1, t.val)

\* u64::from_str_radix(src, 10), which is also str::parse::<u64>: an empty
\* string is Empty, a lone sign is InvalidDigit, one leading '+' is skipped,
\* a '-' is not a sign for an unsigned type
ParseU64(src) ==
    IF src = <<>> THEN Err("Empty")
    ELSE IF src \in {<<"+">>, <<"-">>} THEN Err("InvalidDigit")
    ELSE IF src[1] = "+" THEN ParseDigits(Tail(src), 1, Zero)
    ELSE ParseDigits(src, 1, Zero)

\* Display for u64: the decimal digits, most significant first
RECURSIVE FormatU64(_)
FormatU64(a) ==
    LET qr == DivSmall(a, 10)
        d  == <<DigitChars[qr.rem + 1]>>
    IN IF qr.quot = Zero THEN d ELSE FormatU64(qr.quot) \o d

\* ------------------------------------------------------------------------
\* impl Gas, ONE_TGAS
\* ------------------------------------------------------------------------
\* u64::pow
RECURSIVE Pow(_, _)
Pow(base, exp) == IF exp = 0 THEN FromNat(1)
                  ELSE MulWide(Pow(base, exp - 1), FromNat(base)).val

\* pub const ONE_TGAS: Gas = Gas(u64::pow(10, 12))
ONE_TGAS == Pow(10, 12)

\* ------------------------------------------------------------------------
\* impl Serialize for Gas
\* ------------------------------------------------------------------------
\* a buffer one byte short of the longest rendering
BufLenShort == 20 - 1

\* let mut buf = [0u8; 20]
BufLen == 20

\* write!(w, "{}", self.0) on w: &mut [u8]: copies what fits and advances w;
\* fails when the slice is too short for the whole text
WriteSlice(cap, txt) ==
    LET n == IF Len(txt) <= cap THEN Len(txt) ELSE cap
    IN [ok |-> Len(txt) <= cap, written |-> SubSeq(txt, 1, n), left |-> cap - n]

\* the length taken to be what is left of the buffer, not what was written
SerLenSwapped(bufLen, remainder) == remainder

\* let len = buf.len() - remainder
SerLen(bufLen, remainder) == bufLen - remainder

\* std::str::from_utf8(&buf[..len]): the buffer holds ASCII digits and the
\* zero bytes it was filled with, "\\0" here
Utf8Valid(b) == \A i \in 1..Len(b) : ToDigit(b[i]) >= 0 \/ b[i] = "\\0"

\* serializer.serialize_str(s) of a string-oriented format such as JSON
JsonString(s) == <<"\"">> \o s \o <<"\"">>

\* Gas::serialize
Serialize(gas) ==
    LET w == WriteSlice(BufLen, FormatU64(gas))
        len == SerLen(BufLen, w.left)
        buf == w.written \o [i \in 1..w.left |-> "\\0"]
    IN IF ~w.ok THEN Abort
       ELSE IF ~Utf8Valid(SubSeq(buf, 1, len)) THEN Abort
       ELSE [kind |-> "Ok", len |-> len, doc |-> JsonString(SubSeq(buf, 1, len))]

\* ------------------------------------------------------------------------
\* impl Deserialize for Gas
\* ------------------------------------------------------------------------
\* let s: String = Deserialize::deserialize(deserializer): the document has
\* to be a quoted string
JsonIsString(doc) == Len(doc) >= 2 /\ doc[1] = "\"" /\ doc[Len(doc)] = "\""

\* s.parse::<u64>()
ParseStr(s) == ParseU64(s)

\* Gas::deserialize
Deserialize(doc) ==
    IF ~JsonIsString(doc) THEN Err("InvalidType")
    ELSE ParseStr(SubSeq(doc, 2, Len(doc) - 1))

\* ------------------------------------------------------------------------
\* impl FromStr for Gas
\* ------------------------------------------------------------------------
from_str(value) ==
    IF ~StartsWithNum(value) THEN Err("InvalidDigit")
    ELSE ParseU64(Replace(value))

\* ------------------------------------------------------------------------
\* derive(BorshSerialize, BorshDeserialize) on struct Gas(pub u64)
\* ------------------------------------------------------------------------
\* u64::to_be_bytes: the bytes in big-endian order
RECURSIVE ToBeBytes(_)
ToBeBytes(gas) ==
    IF gas = <<>> THEN <<>>
    ELSE ToBeBytes(Tail(gas)) \o <<Head(gas) \div ByteBase, Head(gas) % ByteBase>>

\* u64::to_le_bytes of the one field
RECURSIVE BorshSerialize(_)
BorshSerialize(gas) ==
    IF gas = <<>> THEN <<>>
    ELSE <<Head(gas) % ByteBase, Head(gas) \div ByteBase>> \o BorshSerialize(Tail(gas))

\* u64::from_le_bytes
FromLeBytes(b) == [i \in 1..NumLimbs |-> b[2 * i - 1] + ByteBase * b[2 * i]]

\* the size of the encoding: size_of::<u64>()
EncLen == 8

\* u64::deserialize(buf): fails on fewer than 8 bytes, else reads 8
BorshDeserialize(buf) ==
    IF Len(buf) < EncLen THEN Err("UnexpectedLength")
    ELSE Ok(FromLeBytes(SubSeq(buf, 1, EncLen)))

\* ------------------------------------------------------------------------
\* Inputs
\* ------------------------------------------------------------------------
Alphabet == {"0", "1", "9", "_", "+", "-", "A", " "}

NamedStr ==
    {<<"1", "_", "0", "0", "0", "_", "0", "0", "0", "_", "0", "0", "0", "_", "0", "0", "0">>,
     <<"1", "0", "0", "0", "0", "0", "0", "0", "0", "0", "0", "0", "0">>,
     <<"1", "8", "4", "4", "6", "7", "4", "4", "0", "7", "3", "7", "0", "9", "5", "5", "1", "6", "1", "5">>,
     <<"1", "8", "4", "4", "6", "7", "4", "4", "0", "7", "3", "7", "0", "9", "5", "5", "1", "6", "1", "6">>,
     <<"+", "1", "8", "4", "4", "6", "7", "4", "4", "0", "7", "3", "7", "0", "9", "5", "5", "1", "6", "1", "5">>,
     <<"0", "0", "0", "1", "8", "4", "4", "6", "7", "4", "4", "0", "7", "3", "7", "0", "9", "5", "5", "1", "6", "1", "5">>,
     <<"9", "9", "9", "9", "9", "9", "9", "9", "9", "9", "9", "9", "9", "9", "9", "9", "9", "9", "9", "9">>,
     <<"1", "_", "0", "0", "0", "0", "0", "0", "0", "0", "0", "0", "0", "0", "0", "0", "0", "0", "0", "0", "0", "0", "0", "0">>}

RECURSIVE StrUpTo(_)
StrUpTo(n) == IF n = 0 THEN {<<>>}
              ELSE LET shorter == StrUpTo(n - 1)
                   IN shorter \cup {<<c>> \o s : c \in Alphabet,
                                    s \in {x \in shorter : Len(x) = n - 1}}

SampleStr == StrUpTo(MaxLen) \cup NamedStr

\* 10^19, the smallest value with 20 decimal digits
TenPow19 == MulWide(ONE_TGAS, FromNat(10000000)).val

SampleU64 ==
    {FromNat(n) : n \in 0..MaxSmall}
    \cup {FromNat(n) : n \in {8, 10, 255, 256, 300, 65535, 65536,
                              18446744, 18446745}}
    \cup {ONE_TGAS, TenPow19, SubWide(TenPow19, FromNat(1)).val,
          <<0, 0, 1, 0>>, <<0, 0, 0, 32768>>,
          SubWide(U64_MAX, FromNat(1)).val, U64_MAX}

\* documents handed to the deserializer: quoted strings, and bare digits
SampleDoc == {JsonString(s) : s \in SampleStr}
             \cup {s \in SampleStr : Len(s) = 1}

\* buffers handed to the binary decoder: every prefix of every encoding
SampleBuf == {SubSeq(BorshSerialize(m), 1, k) : m \in SampleU64, k \in 0..EncLen}

\* ------------------------------------------------------------------------
\* Operator impls.  The integer operators are Rust's built-in ones: on
\* overflow they panic when the crate is built with overflow checks (the
\* debug profile) and wrap modulo 2^64 when it is built without (the release
\* profile); `checks` is that build setting.  Division and remainder by zero
\* panic in every build.
\* ------------------------------------------------------------------------
Builtin(overflowed, wrapped, checks, what) ==
    IF overflowed /\ checks THEN Panic(what) ELSE Ok(wrapped)

\* impl ops::Add for Gas: Self(self.0 + other.0)
add(self, other, checks) ==
    LET w == AddWide(self, other)
    IN Builtin(w.carry # 0, w.val, checks, "attempt to add with overflow")

\* impl ops::Sub for Gas: Self(self.0 - other.0)
sub(self, other, checks) ==
    LET w == SubWide(self, other)
    IN Builtin(w.borrow # 0, w.val, checks, "attempt to subtract with overflow")

\* impl ops::Mul<u64> for Gas: Self(self.0 * other)
mul(self, other, checks) ==
    LET w == MulWide(self, other)
    IN Builtin(w.over, w.val, checks, "attempt to multiply with overflow")

\* impl ops::Div<u64> for Gas: Self(self.0 / other)
div(self, other) ==
    IF other = Zero THEN Panic("attempt to divide by zero")
    ELSE Ok(DivRem(self, other).quot)

\* impl ops::Rem<u64> for Gas: Self(self.0.rem(rhs))
rem(self, rhs) ==
    IF rhs = Zero
    THEN Panic("attempt to calculate the remainder with a divisor of zero")
    ELSE Ok(DivRem(self, rhs).rem)

\* an in-place operator: what the call returns and what self holds afterwards
InPlace(self, r) ==
    IF r.kind = "Ok" THEN [ret |-> Ok(<<>>), self |-> r.val]
    ELSE [ret |-> r, self |-> self]

\* impl ops::AddAssign for Gas: self.0 += other.0
add_assign(self, other, checks) == InPlace(self, add(self, other, checks))

\* impl ops::SubAssign for Gas: self.0 -= other.0
sub_assign(self, other, checks) == InPlace(self, sub(self, other, checks))

\* Gas::from_tgas: ONE_TGAS * tgas.into()
from_tgas(tgas, checks) == mul(ONE_TGAS, tgas, checks)

\* ------------------------------------------------------------------------
\* State: the operands drawn for one call on the type, the call made on
\* them and its outcome.  Gas is a Copy value type without shared state, so
\* a behaviour is one call on freshly drawn operands.
\* ------------------------------------------------------------------------
VARIABLES
    overflowChecks, \* the build's overflow-checks setting
    lhs,            \* self, a Gas value, before the call
    rhs,            \* the u64 / Gas argument
    text,           \* the string argument
    bytes,          \* the byte buffer argument
    op,             \* the operation called, "none" before the call
    ret,            \* what the call returned
    lhsAfter        \* self after the call

vars == <<overflowChecks, lhs, rhs, text, bytes, op, ret, lhsAfter>>

Init ==
    /\ overflowChecks \in BOOLEAN
    /\ \/ /\ lhs \in SampleU64
          /\ rhs \in SampleU64
          /\ text = <<>>
          /\ bytes = <<>>
       \/ /\ lhs = Zero
          /\ rhs = Zero
          /\ text \in SampleStr \cup SampleDoc
          /\ bytes = <<>>
       \/ /\ lhs = Zero
          /\ rhs = Zero
          /\ text = <<>>
          /\ bytes \in SampleBuf
    /\ op = "none"
    /\ ret = Ok(<<>>)
    /\ lhsAfter = lhs

\* the call `name` is made on the drawn operands, returns r and leaves
\* `self` in self
Call(name, r, self) ==
    /\ op = "none"
    /\ op' = name
    /\ ret' = r
    /\ lhsAfter' = self
    /\ UNCHANGED <<overflowChecks, lhs, rhs, text, bytes>>

\* Gas::from_tgas(rhs)
CallFromTgas == Call("from_tgas", from_tgas(rhs, overflowChecks), lhs)

\* lhs + Gas(rhs)
CallAdd == Call("add", add(lhs, rhs, overflowChecks), lhs)

\* lhs += Gas(rhs)
CallAddAssign == Call("add_assign", add_assign(lhs, rhs, overflowChecks).ret, add_assign(lhs, rhs, overflowChecks).self)

\* lhs - Gas(rhs)
CallSub == Call("sub", sub(lhs, rhs, overflowChecks), lhs)

\* lhs -= Gas(rhs)
CallSubAssign == Call("sub_assign", sub_assign(lhs, rhs, overflowChecks).ret, sub_assign(lhs, rhs, overflowChecks).self)

\* lhs * rhs
CallMul == Call("mul", mul(lhs, rhs, overflowChecks), lhs)

\* lhs / rhs
CallDiv == Call("div", div(lhs, rhs), lhs)

\* lhs % rhs
CallRem == Call("rem", rem(lhs, rhs), lhs)

\* serde: lhs.serialize(serializer)
CallSerialize == Call("serialize", Serialize(lhs), lhs)

\* serde: Gas::deserialize(deserializer) on the document text
CallDeserialize == Call("deserialize", Deserialize(text), lhs)

\* Gas::from_str(text)
CallFromStr == Call("from_str", from_str(text), lhs)

\* borsh: lhs.try_to_vec()
CallBorshSerialize == Call("borsh_serialize", [kind |-> "Ok", bytes |-> BorshSerialize(lhs)], lhs)

\* borsh: Gas::deserialize(&mut bytes)
CallBorshDeserialize == Call("borsh_deserialize", BorshDeserialize(bytes), lhs)

Next ==
    \/ CallFromTgas
    \/ CallAdd
    \/ CallAddAssign
    \/ CallSub
    \/ CallSubAssign
    \/ CallMul
    \/ CallDiv
    \/ CallRem
    \/ CallSerialize
    \/ CallDeserialize
    \/ CallFromStr
    \/ CallBorshSerialize
    \/ CallBorshDeserialize

Spec == Init /\ [][Next]_vars

TypeOK ==
    /\ overflowChecks \in BOOLEAN
    /\ IsU64(lhs) /\ IsU64(rhs) /\ IsU64(lhsAfter)
    /\ ret.kind \in {"Ok", "Err", "Panic", "Abort"}

\* ------------------------------------------------------------------------
\* Vocabulary of the properties
\* ------------------------------------------------------------------------
DecimalDigits == {"0", "1", "2", "3", "4", "5", "6", "7", "8", "9"}

AllDigits(s) == \A i \in 1..Len(s) : s[i] \in DecimalDigits

\* s with every '_' deleted
StripSeparators(s) == SelectSeq(s, LAMBDA c : c # "_")

\* s without its leading zeros
RECURSIVE StripZeros(_)
StripZeros(s) == IF s # <<>> /\ Head(s) = "0" THEN StripZeros(Tail(s)) ELSE s

\* digit strings of equal length, compared as numerals
RECURSIVE NumeralLess(_, _)
NumeralLess(s, t) ==
    IF s = <<>> THEN FALSE
    ELSE IF Head(s) # Head(t) THEN ToDigit(Head(s)) < ToDigit(Head(t))
    ELSE NumeralLess(Tail(s), Tail(t))

MaxNumeral == <<"1", "8", "4", "4", "6", "7", "4", "4", "0", "7", "3", "7", "0", "9", "5", "5", "1", "6", "1", "5">>

\* the all-digit string s denotes a value above 2^64 - 1
ExceedsU64(s) ==
    LET t == StripZeros(s)
    IN \/ Len(t) > Len(MaxNumeral)
       \/ Len(t) = Len(MaxNumeral) /\ NumeralLess(MaxNumeral, t)

\* a canonical decimal numeral: digits only, no leading zero except "0"
Canonical(s) == /\ s # <<>>
                /\ AllDigits(s)
                /\ (Len(s) > 1 => s[1] # "0")

\* 10^k for k in 0..19
TenPow(k) ==
    IF k <= 9 THEN FromNat(10 ^ k)
    ELSE IF k <= 18 THEN MulWide(FromNat(10 ^ 9), FromNat(10 ^ (k - 9))).val
    ELSE MulWide(MulWide(FromNat(10 ^ 9), FromNat(10 ^ 9)).val, FromNat(10)).val

\* the number of decimal digits of m
NumDigits(m) == 1 + Cardinality({k \in 1..19 : Le(TenPow(k), m)})

\* byte i (0 = least significant) of m
ByteAt(m, i) == (m[(i \div 2) + 1] \div (ByteBase ^ (i % 2))) % ByteBase

\* ------------------------------------------------------------------------
\* Properties
\* ------------------------------------------------------------------------

\* C1: from_str on a string that starts with a decimal digit and holds only
\* decimal digits and '_', whose digits denote a value v <= 2^64 - 1,
\* succeeds with Gas(v): the '_' are deleted before the digits are read.
C1_FromStrStripsSeparators ==
    (/\ op = "from_str"
     /\ text # <<>>
     /\ text[1] \in DecimalDigits
     /\ AllDigits(StripSeparators(text))
     /\ ~ExceedsU64(StripSeparators(text)))
    => ret = ParseDigits(StripSeparators(text), 1, Zero)

\* C2: from_str fails with InvalidDigit on every input whose first character
\* is not a decimal digit, the empty string included, whatever follows.
C2_FromStrRejectsNonDigitStart ==
    (op = "from_str" /\ (text = <<>> \/ text[1] \notin DecimalDigits))
    => ret = Err("InvalidDigit")

C2_Witness ==
    /\ op = "from_str"
    /\ text = <<"+", "1">>
    /\ ret = Err("InvalidDigit")

\* C3: serializing Gas(m) yields the canonical decimal numeral of m as a
\* quoted string, and deserializing that document gives Gas(m) back;
\* 0 -> "0", 8 -> "8", 2^64 - 1 -> "18446744073709551615".
C3_TextRoundTrip ==
    op = "serialize" =>
        /\ ret.kind = "Ok"
        /\ Len(ret.doc) >= 3
        /\ ret.doc[1] = "\"" /\ ret.doc[Len(ret.doc)] = "\""
        /\ Canonical(SubSeq(ret.doc, 2, Len(ret.doc) - 1))
        /\ Deserialize(ret.doc) = Ok(lhs)
        /\ (lhs = Zero => ret.doc = <<"\"", "0", "\"">>)
        /\ (lhs = FromNat(8) => ret.doc = <<"\"", "8", "\"">>)
        /\ (lhs = U64_MAX => ret.doc = <<"\"">> \o MaxNumeral \o <<"\"">>)

C3_Witness ==
    /\ op = "serialize"
    /\ lhs = U64_MAX
    /\ ret.kind = "Ok"
    /\ ret.doc = <<"\"">> \o MaxNumeral \o <<"\"">>
    /\ Deserialize(ret.doc) = Ok(U64_MAX)

\* C4: the wire decoder accepts a string only if it is made of decimal
\* digits alone: an empty string or one holding any other character is
\* rejected, and an all-digit string above 2^64 - 1 is rejected with
\* Overflow.
C4_DeserializeDigitsOnly ==
    (op = "deserialize" /\ JsonIsString(text)) =>
        LET s == SubSeq(text, 2, Len(text) - 1)
        IN /\ (s = <<>> \/ ~AllDigits(s)) => ret.kind = "Err"
           /\ (s # <<>> /\ AllDigits(s) /\ ExceedsU64(s))
                  => ret = Err("PosOverflow")

\* C5: from_tgas(n) is Gas(n * 10^12) when that fits 64 bits, and an
\* explicit Overflow failure, neither a wrapped value nor an abort, when
\* it does not.
C5_FromTgasChecked ==
    op = "from_tgas" =>
        LET p == MulWide(TenPow(12), rhs)
        IN IF p.over THEN ret = Err("Overflow") ELSE ret = Ok(p.val)

\* C6: add and add_in_place give Gas(a + b) when the sum fits 64 bits and
\* an explicit Overflow failure, never a wrapped sum, when it does not; a
\* failed add_in_place leaves the left operand at a.
C6_AddChecked ==
    LET s == AddWide(lhs, rhs)
    IN /\ op = "add" =>
            IF s.carry # 0 THEN ret = Err("Overflow") ELSE ret = Ok(s.val)
       /\ op = "add_assign" =>
            IF s.carry # 0 THEN ret = Err("Overflow") /\ lhsAfter = lhs
            ELSE ret.kind = "Ok" /\ lhsAfter = s.val

\* C7: sub and sub_in_place give Gas(a - b) when a >= b and an explicit
\* Underflow failure, never a wrapped difference, when b > a; a failed
\* sub_in_place leaves the left operand at a.
C7_SubChecked ==
    LET d == SubWide(lhs, rhs)
    IN /\ op = "sub" =>
            IF Lt(lhs, rhs) THEN ret = Err("Underflow") ELSE ret = Ok(d.val)
       /\ op = "sub_assign" =>
            IF Lt(lhs, rhs) THEN ret = Err("Underflow") /\ lhsAfter = lhs
            ELSE ret.kind = "Ok" /\ lhsAfter = d.val

\* C8: div_scalar(a, 0) and rem_scalar(a, 0) return an explicit
\* DivisionByZero failure, not a panic; for n # 0 they return Gas(a div n)
\* and Gas(a mod n), with (a / n) * n + (a % n) = a.
C8_DivRemChecked ==
    op \in {"div", "rem"} =>
        IF rhs = Zero THEN ret = Err("DivisionByZero")
        ELSE LET q == IF op = "div" THEN ret.val ELSE DivRem(lhs, rhs).quot
                 r == IF op = "rem" THEN ret.val ELSE DivRem(lhs, rhs).rem
                 qn == MulWide(q, rhs)
             IN /\ ret.kind = "Ok"
                /\ Lt(r, rhs)
                /\ ~qn.over
                /\ AddWide(qn.val, r) = [val |-> lhs, carry |-> 0]

\* C9: the binary encoding of Gas(m) is exactly 8 bytes, m in little-endian
\* order; decoding them gives Gas(m) back; decoding fewer than 8 bytes
\* fails.
C9_BinaryRoundTrip ==
    /\ op = "borsh_serialize" =>
          /\ ret.kind = "Ok"
          /\ Len(ret.bytes) = 8
          /\ \A i \in 0..7 : ret.bytes[i + 1] = ByteAt(lhs, i)
          /\ BorshDeserialize(ret.bytes) = Ok(lhs)
    /\ (op = "borsh_deserialize" /\ Len(bytes) < 8) => ret.kind = "Err"

C9_Witness ==
    /\ op = "borsh_serialize"
    /\ lhs = TenPow(12)
    /\ ret.bytes = <<0, 16, 165, 212, 232, 0, 0, 0>>
    /\ BorshDeserialize(ret.bytes) = Ok(lhs)

\* C10: the decimal rendering of any u64 has at most 20 digits, so the
\* write into the 20-byte buffer never fails, Serialize never aborts, and
\* the length it computes is the number of decimal digits of the value.
C10_FormatInfallible ==
    op = "serialize" =>
        /\ ret.kind = "Ok"
        /\ ret.len = NumDigits(lhs)
        /\ ret.len <= 20
        /\ Len(ret.doc) = ret.len + 2

C10_Witness ==
    /\ op = "serialize"
    /\ lhs = U64_MAX
    /\ ret.kind = "Ok"
    /\ ret.len = 20


====
